---------------------------- MODULE Spec2Model ----------------------------
(***************************************************************************)
(* Payment reconciliation service: the JSON storage, the match kernel, the *)
(* two reconcilers and the two webhook ingest handlers.                    *)
(*                                                                         *)
(* Representation                                                          *)
(*   - a Python str is a sequence of one-character strings; None is the    *)
(*     one-element tuple None, which is no str of the model's alphabet;    *)
(*   - a Decimal is an integer number of minor units; a decimal held as a  *)
(*     str (expected_amount, received_amount, a transaction's amount) is   *)
(*     the pair DecStr(n), so that str() and to_decimal() are conversions; *)
(*   - a dict that keeps insertion order (payments, transactions) and the  *)
(*     list of links are sequences of records;                             *)
(*   - pass-through fields no decision reads (payer_email, due_date,       *)
(*     description, timestamps, link_id, bank fields) are left out.        *)
(***************************************************************************)
EXTENDS Integers, Sequences, FiniteSets, TLC

VARIABLES
    data,      \* storage._data: payments, transactions, reconciliation_links
    last,      \* what the last ingest handler did: which one, duplicate, links made
    hist,      \* the webhooks handled so far (kept by the order specification only)
    tasks,     \* the requests in flight on the event loop, each with its position
    running,   \* the task that holds the event loop, 0 when it is free
    base       \* the storage when the requests in flight were received

vars == <<data, last, hist, tasks, running, base>>

-----------------------------------------------------------------------------
(* Bounds of the model *)

\* stored payments plus stored transactions
MaxEntities == 5

\* webhooks delivered in the order specification
MaxHist == 3

\* entities stored before the two concurrent requests arrive
MaxBase == 1

\* the largest expected amount the status is calculated for, in minor units
MaxExpected == 120

\* the largest amount tried against what remains of an open payment
MaxTxnAmount == 300

\* the longest reference of the reference specification
MaxRefLen == 3

-----------------------------------------------------------------------------
(* Values *)

None == <<"<None>">>

\* bool(x) of a str-or-None value
Truthy(x) == x # None /\ x # <<>>

DecStr(n) == <<"dec", n>>

USD == <<"U", "S", "D">>
EUR == <<"E", "U", "R">>

-----------------------------------------------------------------------------
(* str methods *)

LowerChar(c) ==
    CASE c = "A" -> "a"
      [] c = "B" -> "b"
      [] c = "C" -> "c"
      [] OTHER -> c

lower(s) == [i \in 1..Len(s) |-> LowerChar(s[i])]

RECURSIVE lstrip(_)
lstrip(s) == IF s # <<>> /\ Head(s) = " " THEN lstrip(Tail(s)) ELSE s

RECURSIVE rstrip(_)
rstrip(s) ==
    IF s # <<>> /\ s[Len(s)] = " " THEN rstrip(SubSeq(s, 1, Len(s) - 1)) ELSE s

strip(s) == rstrip(lstrip(s))

remove_hyphens(s) == SelectSeq(s, LAMBDA c : c # "-")

\* sub in s
contains(sub, s) ==
    \E i \in 0..(Len(s) - Len(sub)) : SubSeq(s, i + 1, i + Len(sub)) = sub

-----------------------------------------------------------------------------
(* Match kernel: services/reconciler.py *)

FeeTolerancePercent == 1

to_decimal(value) == IF Truthy(value) THEN value[2] ELSE 0

\* 100 * get_tolerance(amount): the division by 100 is moved to the other
\* side of each comparison that uses it, so that all amounts stay integers
get_tolerance_x100(amount) == amount * FeeTolerancePercent

normalize_ref(ref) ==
    IF ~Truthy(ref) THEN <<>> ELSE remove_hyphens(strip(lower(ref)))

payer_matches(payer1, payer2) ==
    IF ~Truthy(payer1) \/ ~Truthy(payer2)
    THEN FALSE
    ELSE LET p1 == lower(payer1)
             p2 == lower(payer2)
         IN p1 = p2 \/ contains(p1, p2) \/ contains(p2, p1)

NoMatch == "NONE"

\* mutant: references that are equal once normalized count as EXACT
match_reference_loose(txn_ref, payment_ref) ==
    IF ~Truthy(txn_ref) \/ ~Truthy(payment_ref) THEN NoMatch
    ELSE IF normalize_ref(txn_ref) = normalize_ref(payment_ref) THEN "EXACT"
    ELSE NoMatch

\* mutant: the payment's reference is compared as it is stored
match_reference_lstrip(txn_ref, payment_ref) ==
    IF ~Truthy(txn_ref) \/ ~Truthy(payment_ref) THEN NoMatch
    ELSE IF strip(txn_ref) = payment_ref THEN "EXACT"
    ELSE IF normalize_ref(txn_ref) = normalize_ref(payment_ref) THEN "FUZZY_REF"
    ELSE NoMatch

match_reference(txn_ref, payment_ref) ==
    IF ~Truthy(txn_ref) \/ ~Truthy(payment_ref) THEN NoMatch
    ELSE IF strip(txn_ref) = strip(payment_ref) THEN "EXACT"
    ELSE IF normalize_ref(txn_ref) = normalize_ref(payment_ref) THEN "FUZZY_REF"
    ELSE NoMatch

\* mutant: an excess within the tolerance still counts as fully paid
calculate_payment_status_tolerant(expected, received) ==
    IF received <= 0 THEN "PENDING"
    ELSE IF 100 * received > 100 * expected + get_tolerance_x100(expected)
         THEN "OVERPAID"
    ELSE IF 100 * received >= 100 * expected - get_tolerance_x100(expected)
         THEN "FULLY_PAID"
    ELSE "PARTIALLY_PAID"

calculate_payment_status(expected, received) ==
    IF received <= 0 THEN "PENDING"
    ELSE IF received > expected THEN "OVERPAID"
    ELSE IF 100 * received >= 100 * expected - get_tolerance_x100(expected)
         THEN "FULLY_PAID"
    ELSE "PARTIALLY_PAID"

\* mutant: the amount has to lie within the tolerance on either side of what
\* remains
amount_matches_remaining_within(txn_amount, payment) ==
    LET remaining == to_decimal(payment.expected_amount)
                     - to_decimal(payment.received_amount)
    IN /\ 100 * txn_amount <= 100 * remaining + get_tolerance_x100(remaining)
       /\ 100 * txn_amount >= 100 * remaining - get_tolerance_x100(remaining)

amount_matches_remaining(txn_amount, payment) ==
    LET remaining == to_decimal(payment.expected_amount)
                     - to_decimal(payment.received_amount)
    IN \/ txn_amount <= remaining
       \/ 100 * txn_amount >= 100 * remaining - get_tolerance_x100(remaining)

abs(n) == IF n < 0 THEN -n ELSE n


-----------------------------------------------------------------------------
(* JsonStorage: storage.py.  d is the value of self._data. *)

EmptyData ==
    [payments |-> <<>>, transactions |-> <<>>, reconciliation_links |-> <<>>]

Range(seq) == {seq[i] : i \in 1..Len(seq)}

\* a fresh id: the prefix followed by a mark per id generated so far with it
\* (uuid4 never repeats)
generate_id(prefix, ids) ==
    LET n == Cardinality({i \in ids : i # <<>> /\ Head(i) = prefix})
    IN <<prefix>> \o [k \in 1..(n + 1) |-> "#"]

PaymentIds(d) == {p.payment_id : p \in Range(d.payments)}

TransactionIds(d) == {t.transaction_id : t \in Range(d.transactions)}

has_payment(d, payment_id) == payment_id \in PaymentIds(d)

PaymentIndex(d, payment_id) ==
    CHOOSE i \in 1..Len(d.payments) : d.payments[i].payment_id = payment_id

get_payment(d, payment_id) == d.payments[PaymentIndex(d, payment_id)]

\* the record add_payment builds and returns
add_payment_record(d, payment) ==
    [payment_id      |-> IF Truthy(payment.payment_id)
                         THEN payment.payment_id
                         ELSE generate_id("pay_", PaymentIds(d)),
     reference       |-> payment.reference,
     expected_amount |-> payment.expected_amount,
     currency        |-> payment.currency,
     payer_name      |-> payment.payer_name,
     status          |-> "PENDING",
     received_amount |-> DecStr(0)]

\* self._data["payments"][payment_id] = payment_record: a key that is already
\* there keeps its place in the dict and gets the new record
add_payment(d, payment) ==
    LET rec == add_payment_record(d, payment)
    IN IF has_payment(d, rec.payment_id)
       THEN [d EXCEPT !.payments[PaymentIndex(d, rec.payment_id)] = rec]
       ELSE [d EXCEPT !.payments = Append(@, rec)]

get_all_payments(d) == d.payments

AllStatuses == {"PENDING", "PARTIALLY_PAID", "FULLY_PAID", "OVERPAID"}

\* get_all_payments(currency=..., status__in=...) as the reconcilers call it
get_all_payments_filtered(d, currency, status_in) ==
    SelectSeq(get_all_payments(d),
              LAMBDA p : p.currency = currency /\ p.status \in status_in)

\* mutant: the merge drops the status field
update_payment_nostatus(d, payment_id, received_amount, status) ==
    IF has_payment(d, payment_id)
    THEN [d EXCEPT !.payments[PaymentIndex(d, payment_id)] =
              [@ EXCEPT !.received_amount = received_amount]]
    ELSE d

update_payment(d, payment_id, received_amount, status) ==
    IF has_payment(d, payment_id)
    THEN [d EXCEPT !.payments[PaymentIndex(d, payment_id)] =
              [@ EXCEPT !.received_amount = received_amount, !.status = status]]
    ELSE d

has_transaction(d, transaction_id) == transaction_id \in TransactionIds(d)

TransactionIndex(d, transaction_id) ==
    CHOOSE i \in 1..Len(d.transactions) :
        d.transactions[i].transaction_id = transaction_id

get_transaction(d, transaction_id) ==
    d.transactions[TransactionIndex(d, transaction_id)]

add_transaction_record(d, transaction) ==
    [transaction_id        |-> IF Truthy(transaction.transaction_id)
                               THEN transaction.transaction_id
                               ELSE generate_id("txn_", TransactionIds(d)),
     reference             |-> transaction.reference,
     amount                |-> transaction.amount,
     currency              |-> transaction.currency,
     payer_name            |-> transaction.payer_name,
     matched               |-> FALSE,
     matched_to_payment_id |-> None]

add_transaction(d, transaction) ==
    LET rec == add_transaction_record(d, transaction)
    IN IF has_transaction(d, rec.transaction_id)
       THEN [d EXCEPT !.transactions[TransactionIndex(d, rec.transaction_id)] = rec]
       ELSE [d EXCEPT !.transactions = Append(@, rec)]

\* mutant: the matched flag is not looked at
get_unmatched_transactions_all(d) == d.transactions

get_unmatched_transactions(d) ==
    SelectSeq(d.transactions, LAMBDA t : ~t.matched)

\* mutant: the update is merged into every stored transaction
update_transaction_every(d, transaction_id, matched, matched_to_payment_id) ==
    [d EXCEPT !.transactions =
        [i \in 1..Len(d.transactions) |->
            [d.transactions[i] EXCEPT
                !.matched = matched,
                !.matched_to_payment_id = matched_to_payment_id]]]

\* mutant: the merge drops the matched_to_payment_id field
update_transaction_flagonly(d, transaction_id, matched, matched_to_payment_id) ==
    IF has_transaction(d, transaction_id)
    THEN [d EXCEPT !.transactions[TransactionIndex(d, transaction_id)] =
              [@ EXCEPT !.matched = matched]]
    ELSE d

update_transaction(d, transaction_id, matched, matched_to_payment_id) ==
    IF has_transaction(d, transaction_id)
    THEN [d EXCEPT !.transactions[TransactionIndex(d, transaction_id)] =
              [@ EXCEPT !.matched = matched,
                        !.matched_to_payment_id = matched_to_payment_id]]
    ELSE d

add_reconciliation_link(d, link) ==
    [d EXCEPT !.reconciliation_links = Append(@, link)]

get_all_reconciliation_links(d) == d.reconciliation_links

-----------------------------------------------------------------------------
(* Reconcilers: services/reconciler.py *)

RefundNote == <<"Refund">>

\* mutant: the link is added and the transaction is not marked
create_reconciliation_link_nomark(d, payment_id, txn, match_type) ==
    LET txn_amount == to_decimal(txn.amount)
    IN add_reconciliation_link(d,
           [payment_id     |-> payment_id,
            transaction_id |-> txn.transaction_id,
            match_type     |-> match_type,
            amount         |-> txn_amount,
            notes          |-> IF txn_amount < 0 THEN RefundNote ELSE None])

\* mutant: a zero amount is noted as a refund too
create_reconciliation_link_nonpositive(d, payment_id, txn, match_type) ==
    LET txn_amount == to_decimal(txn.amount)
        d1 == add_reconciliation_link(d,
                  [payment_id     |-> payment_id,
                   transaction_id |-> txn.transaction_id,
                   match_type     |-> match_type,
                   amount         |-> txn_amount,
                   notes          |-> IF txn_amount <= 0 THEN RefundNote ELSE None])
    IN update_transaction(d1, txn.transaction_id, TRUE, payment_id)

create_reconciliation_link(d, payment_id, txn, match_type) ==
    LET txn_amount == to_decimal(txn.amount)
        d1 == add_reconciliation_link(d,
                  [payment_id     |-> payment_id,
                   transaction_id |-> txn.transaction_id,
                   match_type     |-> match_type,
                   amount         |-> txn_amount,
                   notes          |-> IF txn_amount < 0 THEN RefundNote ELSE None])
    IN update_transaction(d1, txn.transaction_id, TRUE, payment_id)

\* mutant: the amount is added without its sign
update_payment_received_abs(d, payment_id, txn_amount) ==
    IF ~has_payment(d, payment_id)
    THEN d
    ELSE LET payment == get_payment(d, payment_id)
             expected == to_decimal(payment.expected_amount)
             new_received == to_decimal(payment.received_amount) + abs(txn_amount)
             status == calculate_payment_status(expected, new_received)
         IN update_payment(d, payment_id, DecStr(new_received), status)

\* mutant: the status is computed from the amount received before this one
update_payment_received_stale(d, payment_id, txn_amount) ==
    IF ~has_payment(d, payment_id)
    THEN d
    ELSE LET payment == get_payment(d, payment_id)
             expected == to_decimal(payment.expected_amount)
             new_received == to_decimal(payment.received_amount) + txn_amount
             status == calculate_payment_status(
                           expected, to_decimal(payment.received_amount))
         IN update_payment(d, payment_id, DecStr(new_received), status)

update_payment_received(d, payment_id, txn_amount) ==
    IF ~has_payment(d, payment_id)
    THEN d
    ELSE LET payment == get_payment(d, payment_id)
             expected == to_decimal(payment.expected_amount)
             new_received == to_decimal(payment.received_amount) + txn_amount
             status == calculate_payment_status(expected, new_received)
         IN update_payment(d, payment_id, DecStr(new_received), status)

\* a (payment, match_type) pair, or NotFound for None
NotFound == [found |-> FALSE, payment_id |-> None, match_type |-> NoMatch]

Found(p, match_type) ==
    [found |-> TRUE, payment_id |-> p.payment_id, match_type |-> match_type]

\* mutant: a payment whose reference matches EXACT is preferred to an earlier
\* one that matches FUZZY_REF
_match_by_reference_exact(d, txn) ==
    IF ~Truthy(txn.reference)
    THEN NotFound
    ELSE LET hits == SelectSeq(
                 get_all_payments_filtered(d, txn.currency, AllStatuses),
                 LAMBDA p : match_reference(txn.reference, p.reference) # NoMatch)
             exact == SelectSeq(hits,
                 LAMBDA p : match_reference(txn.reference, p.reference) = "EXACT")
         IN IF hits = <<>>
            THEN NotFound
            ELSE IF exact # <<>>
            THEN Found(Head(exact), "EXACT")
            ELSE Found(Head(hits), match_reference(txn.reference, Head(hits).reference))

_match_by_reference(d, txn) ==
    IF ~Truthy(txn.reference)
    THEN NotFound
    ELSE LET hits == SelectSeq(
                 get_all_payments_filtered(d, txn.currency, AllStatuses),
                 LAMBDA p : match_reference(txn.reference, p.reference) # NoMatch)
         IN IF hits = <<>>
            THEN NotFound
            ELSE Found(Head(hits), match_reference(txn.reference, Head(hits).reference))

_match_by_payer_amount(d, txn) ==
    IF ~Truthy(txn.payer_name)
    THEN NotFound
    ELSE LET candidates == get_all_payments_filtered(
                 d, txn.currency, {"PENDING", "PARTIALLY_PAID"})
             hits == SelectSeq(candidates,
                 LAMBDA p : /\ payer_matches(txn.payer_name, p.payer_name)
                            /\ amount_matches_remaining(abs(to_decimal(txn.amount)), p))
         IN IF hits = <<>> THEN NotFound ELSE Found(Head(hits), "AMOUNT_ONLY")

\* mutant: the payments are walked, in the order they were stored, and the
\* first one of the payer that has a link is returned
_match_refund_by_payer_payments(d, txn) ==
    IF ~Truthy(txn.payer_name)
    THEN NotFound
    ELSE LET hits == SelectSeq(get_all_payments(d),
                 LAMBDA p :
                     /\ \E l \in Range(d.reconciliation_links) :
                            l.payment_id = p.payment_id
                     /\ p.currency = txn.currency
                     /\ payer_matches(txn.payer_name, p.payer_name))
         IN IF hits = <<>> THEN NotFound ELSE Found(Head(hits), "EXACT")

_match_refund_by_payer(d, txn) ==
    IF ~Truthy(txn.payer_name)
    THEN NotFound
    ELSE LET hits == SelectSeq(get_all_reconciliation_links(d),
                 LAMBDA link :
                     /\ has_payment(d, link.payment_id)
                     /\ get_payment(d, link.payment_id).currency = txn.currency
                     /\ payer_matches(txn.payer_name,
                                      get_payment(d, link.payment_id).payer_name))
         IN IF hits = <<>>
            THEN NotFound
            ELSE Found(get_payment(d, Head(hits).payment_id), "EXACT")

\* mutant: payer and amount are tried for a transaction that has a reference
_find_payment_anyref(d, txn) ==
    IF _match_by_reference(d, txn).found
    THEN _match_by_reference(d, txn)
    ELSE IF _match_by_payer_amount(d, txn).found
    THEN _match_by_payer_amount(d, txn)
    ELSE IF to_decimal(txn.amount) < 0 /\ _match_refund_by_payer(d, txn).found
    THEN _match_refund_by_payer(d, txn)
    ELSE NotFound

_find_payment(d, txn) ==
    IF _match_by_reference(d, txn).found
    THEN _match_by_reference(d, txn)
    ELSE IF ~Truthy(txn.reference) /\ _match_by_payer_amount(d, txn).found
    THEN _match_by_payer_amount(d, txn)
    ELSE IF to_decimal(txn.amount) < 0 /\ _match_refund_by_payer(d, txn).found
    THEN _match_refund_by_payer(d, txn)
    ELSE NotFound

\* mutant: True is returned whether a payment was found or not
TransactionReconciler_true(d, txn) ==
    LET m == _find_payment(d, txn)
    IN IF ~m.found
       THEN [data |-> d, result |-> TRUE]
       ELSE [data |-> update_payment_received(
                          create_reconciliation_link(d, m.payment_id, txn, m.match_type),
                          m.payment_id, to_decimal(txn.amount)),
             result |-> TRUE]

\* TransactionReconciler(transaction)(): the storage it leaves and what it returns
TransactionReconciler(d, txn) ==
    LET m == _find_payment(d, txn)
    IN IF ~m.found
       THEN [data |-> d, result |-> FALSE]
       ELSE [data |-> update_payment_received(
                          create_reconciliation_link(d, m.payment_id, txn, m.match_type),
                          m.payment_id, to_decimal(txn.amount)),
             result |-> TRUE]

\* mutant: the status and the amount received are those of the record the
\* reconciler was given, not re-read from the storage
_matches_by_payer_amount_stale(d, payment, txn) ==
    IF ~payer_matches(txn.payer_name, payment.payer_name)
    THEN FALSE
    ELSE IF payment.status \notin {"PENDING", "PARTIALLY_PAID"}
    THEN FALSE
    ELSE amount_matches_remaining(abs(to_decimal(txn.amount)), payment)

_matches_by_payer_amount(d, payment, txn) ==
    IF ~payer_matches(txn.payer_name, payment.payer_name)
    THEN FALSE
    ELSE IF \/ ~has_payment(d, payment.payment_id)
            \/ get_payment(d, payment.payment_id).status
                   \notin {"PENDING", "PARTIALLY_PAID"}
    THEN FALSE
    ELSE amount_matches_remaining(abs(to_decimal(txn.amount)),
                                  get_payment(d, payment.payment_id))

\* mutant: payer and amount are tried whatever the sign of the amount
_check_match_anyamount(d, payment, txn) ==
    IF match_reference(txn.reference, payment.reference) # NoMatch
    THEN match_reference(txn.reference, payment.reference)
    ELSE IF /\ ~Truthy(txn.reference)
            /\ _matches_by_payer_amount(d, payment, txn)
    THEN "AMOUNT_ONLY"
    ELSE NoMatch

_check_match(d, payment, txn) ==
    IF match_reference(txn.reference, payment.reference) # NoMatch
    THEN match_reference(txn.reference, payment.reference)
    ELSE IF /\ ~Truthy(txn.reference)
            /\ to_decimal(txn.amount) > 0
            /\ _matches_by_payer_amount(d, payment, txn)
    THEN "AMOUNT_ONLY"
    ELSE NoMatch

\* mutant: the loop does not compare the currencies
PaymentReconcilerLinks_anycurrency(d, payment, txn) ==
    _check_match(d, payment, txn) # NoMatch

\* whether PaymentReconciler's loop links the transaction txn
PaymentReconcilerLinks(d, payment, txn) ==
    /\ txn.currency = payment.currency
    /\ _check_match(d, payment, txn) # NoMatch

\* one iteration of PaymentReconciler's loop, for the transaction txn
PaymentReconcilerStep(d, payment, txn) ==
    IF PaymentReconcilerLinks(d, payment, txn)
    THEN update_payment_received(
             create_reconciliation_link(d, payment.payment_id, txn,
                                        _check_match(d, payment, txn)),
             payment.payment_id, to_decimal(txn.amount))
    ELSE d

\* the loop over the list get_unmatched_transactions() returned
RECURSIVE PaymentReconcilerLoop(_, _, _, _)
PaymentReconcilerLoop(d, payment, txns, matched_count) ==
    IF txns = <<>>
    THEN [data |-> d, result |-> matched_count]
    ELSE PaymentReconcilerLoop(
             PaymentReconcilerStep(d, payment, Head(txns)), payment, Tail(txns),
             IF PaymentReconcilerLinks(d, payment, Head(txns))
             THEN matched_count + 1
             ELSE matched_count)

\* mutant: the loop ends after the first unmatched transaction
PaymentReconciler_first(d, payment) ==
    PaymentReconcilerLoop(d, payment,
        IF get_unmatched_transactions(d) = <<>>
        THEN <<>>
        ELSE <<Head(get_unmatched_transactions(d))>>, 0)

PaymentReconciler(d, payment) ==
    PaymentReconcilerLoop(d, payment, get_unmatched_transactions(d), 0)

-----------------------------------------------------------------------------
(* Ingest handlers: services/process_payment_webhook.py,                   *)
(* services/process_transaction_webhook.py                                 *)

payment_data(payload) ==
    [payment_id      |-> payload.payment_id,
     reference       |-> payload.reference,
     expected_amount |-> DecStr(payload.expected_amount),
     currency        |-> payload.currency,
     payer_name      |-> payload.payer_name]

\* ProcessPaymentWebhook(payload)(): the storage it leaves, whether it took the
\* "already exists" return, and the matched_count it logs
ProcessPaymentWebhook(d, payload) ==
    IF has_payment(d, payload.payment_id)
    THEN [data |-> d, duplicate |-> TRUE, result |-> 0]
    ELSE LET rec == add_payment_record(d, payment_data(payload))
             r == PaymentReconciler(add_payment(d, payment_data(payload)), rec)
         IN [data |-> r.data, duplicate |-> FALSE, result |-> r.result]

transaction_data(payload) ==
    [transaction_id |-> payload.transaction_id,
     reference      |-> payload.reference,
     amount         |-> DecStr(payload.amount),
     currency       |-> payload.currency,
     payer_name     |-> payload.payer_name]

\* ProcessTransactionWebhook(payload)(): result is is_reconciled, as 0 or 1
ProcessTransactionWebhook(d, payload) ==
    IF has_transaction(d, payload.transaction_id)
    THEN [data |-> d, duplicate |-> TRUE, result |-> 0]
    ELSE LET rec == add_transaction_record(d, transaction_data(payload))
             r == TransactionReconciler(add_transaction(d, transaction_data(payload)), rec)
         IN [data |-> r.data, duplicate |-> FALSE,
             result |-> IF r.result THEN 1 ELSE 0]

-----------------------------------------------------------------------------
(* Webhook payloads the provider sends.  An id names one event, so each id *)
(* has one payload; the empty id is a str the schemas accept.              *)

Pay(id, ref, payer) ==
    [payment_id |-> id, reference |-> ref, expected_amount |-> 100,
     currency |-> USD, payer_name |-> payer]

Txn(id, ref, amount, currency, payer) ==
    [transaction_id |-> id, reference |-> ref, amount |-> amount,
     currency |-> currency, payer_name |-> payer]

PaymentPayloads ==
    { Pay(<<"p", "1">>, <<"A", "-", "1">>, <<"A", "c">>),
      Pay(<<"p", "2">>, <<"a", "1">>, <<"A", "c">>),
      \* no id
      Pay(<<>>, <<"B">>, <<"b">>) }

TransactionPayloads ==
    { \* FUZZY_REF against A-1, EXACT against a1
      Txn(<<"t", "1">>, <<"a", "1">>, 60, USD, <<"a", "c">>),
      \* no reference: payer and amount
      Txn(<<"t", "2">>, None, 100, USD, <<"a", "c", "m">>),
      Txn(<<"t", "6">>, None, 60, USD, <<"B">>),
      \* refunds, without and with a reference
      Txn(<<"t", "3">>, None, -60, USD, <<"a", "c">>),
      Txn(<<"t", "5">>, <<"X">>, -60, USD, <<"a", "c">>),
      \* another currency
      Txn(<<"t", "4">>, <<"A", "-", "1">>, 60, EUR, <<"a", "c">>),
      \* no id; EXACT against A-1 once stripped
      Txn(<<>>, <<" ", "A", "-", "1">>, 60, USD, <<"b">>) }

-----------------------------------------------------------------------------
(* Sequential ingest: routers/webhooks.py, one request at a time *)

Entities(d) == Len(d.payments) + Len(d.transactions)

\* status is the HTTP status of the response, 0 before any request
NoRequest == [handler |-> "none", duplicate |-> FALSE, result |-> 0, status |-> 0]

Outcome(handler, r) ==
    [handler |-> handler, duplicate |-> r.duplicate, result |-> r.result,
     status |-> 200]

Init ==
    /\ data = EmptyData
    /\ last = NoRequest
    /\ hist = <<>>
    /\ tasks = <<>>
    /\ running = 0
    /\ base = EmptyData

\* room for one more stored entity, or nothing will be stored
Room(d, duplicate) == duplicate \/ Entities(d) < MaxEntities

handle_payment_webhook(payload) ==
    /\ Room(data, has_payment(data, payload.payment_id))
    /\ data' = ProcessPaymentWebhook(data, payload).data
    /\ last' = Outcome("payment", ProcessPaymentWebhook(data, payload))
    /\ UNCHANGED <<hist, tasks, running, base>>

handle_transaction_webhook(payload) ==
    /\ Room(data, has_transaction(data, payload.transaction_id))
    /\ data' = ProcessTransactionWebhook(data, payload).data
    /\ last' = Outcome("transaction", ProcessTransactionWebhook(data, payload))
    /\ UNCHANGED <<hist, tasks, running, base>>

Next ==
    \/ \E payload \in PaymentPayloads : handle_payment_webhook(payload)
    \/ \E payload \in TransactionPayloads : handle_transaction_webhook(payload)

Spec == Init /\ [][Next]_vars

-----------------------------------------------------------------------------
(* Sequential ingest of one payer's settlements and refunds: part payments, *)
(* a zero amount, refunds with and without a reference, and two payments of *)
(* that payer with unrelated references.                                    *)

SettlementPayments ==
    { Pay(<<"p", "1">>, <<"A", "-", "1">>, <<"A", "c">>),
      Pay(<<"p", "3">>, <<"Z">>, <<"A", "c">>) }

SettlementTransactions ==
    { Txn(<<"t", "1">>, <<"a", "1">>, 60, USD, <<"a", "c">>),
      Txn(<<"t", "z">>, <<"Z">>, 60, USD, <<"a", "c">>),
      \* no reference: the whole amount, a part, nothing
      Txn(<<"t", "2">>, None, 100, USD, <<"a", "c", "m">>),
      Txn(<<"t", "7">>, None, 60, USD, <<"a", "c">>),
      Txn(<<"t", "0">>, None, 0, USD, <<"a", "c">>),
      \* refunds: the whole amount, with an unknown reference, with p1's
      Txn(<<"t", "8">>, None, -100, USD, <<"a", "c">>),
      Txn(<<"t", "5">>, <<"X">>, -60, USD, <<"a", "c">>),
      Txn(<<"t", "9">>, <<"A", "-", "1">>, -60, USD, <<"a", "c">>) }

NextSettle ==
    \/ \E payload \in SettlementPayments : handle_payment_webhook(payload)
    \/ \E payload \in SettlementTransactions : handle_transaction_webhook(payload)

SpecSettle == Init /\ [][NextSettle]_vars

-----------------------------------------------------------------------------
(* Sequential ingest against what remains of a payment: the payment's       *)
(* expected amount varies, a transaction with its reference brings any part *)
(* of it (or takes some back), and a transaction without a reference brings *)
(* an amount below, at or far above what is left.                           *)

PayAmount(id, ref, expected_amount, payer) ==
    [payment_id |-> id, reference |-> ref, expected_amount |-> expected_amount,
     currency |-> USD, payer_name |-> payer]

OpenExpected == {0, 100, 200}

PartAmounts == {0 - 50, 60, 99, 150}

OpenAmounts == {0 - 1000, 0, 1, 40, 41, 100, 1000}

RemainingPayments ==
    {PayAmount(<<"p", "1">>, <<"A", "-", "1">>, e, <<"A", "c">>) : e \in OpenExpected}
        \cup {Pay(<<"p", "3">>, <<"Z">>, <<"A", "c">>)}

RemainingTransactions ==
    {Txn(<<"t", "1">>, <<"a", "1">>, a, USD, <<"a", "c">>) : a \in PartAmounts}
        \cup {Txn(<<"t", "2">>, None, a, USD, <<"a", "c">>) : a \in OpenAmounts}

NextRemaining ==
    \/ \E payload \in RemainingPayments : handle_payment_webhook(payload)
    \/ \E payload \in RemainingTransactions : handle_transaction_webhook(payload)

SpecRemaining == Init /\ [][NextRemaining]_vars

-----------------------------------------------------------------------------
(* The same ingest with the delivered webhooks recorded, to compare orders *)

Event(kind, payload) == [kind |-> kind, payload |-> payload]

Ingest(d, e) ==
    IF e.kind = "payment"
    THEN ProcessPaymentWebhook(d, e.payload).data
    ELSE ProcessTransactionWebhook(d, e.payload).data

RECURSIVE Run(_, _)
Run(d, events) ==
    IF events = <<>> THEN d ELSE Run(Ingest(d, Head(events)), Tail(events))

deliver_payment_webhook(payload) ==
    /\ Len(hist) < MaxHist
    /\ data' = ProcessPaymentWebhook(data, payload).data
    /\ last' = Outcome("payment", ProcessPaymentWebhook(data, payload))
    /\ hist' = Append(hist, Event("payment", payload))
    /\ UNCHANGED <<tasks, running, base>>

deliver_transaction_webhook(payload) ==
    /\ Len(hist) < MaxHist
    /\ data' = ProcessTransactionWebhook(data, payload).data
    /\ last' = Outcome("transaction", ProcessTransactionWebhook(data, payload))
    /\ hist' = Append(hist, Event("transaction", payload))
    /\ UNCHANGED <<tasks, running, base>>

NextOrder ==
    \/ \E payload \in PaymentPayloads : deliver_payment_webhook(payload)
    \/ \E payload \in TransactionPayloads : deliver_transaction_webhook(payload)

SpecOrder == Init /\ [][NextOrder]_vars

-----------------------------------------------------------------------------
(* One payment and one transaction of the same payer, currency and amount,  *)
(* with any two references, delivered in either order                       *)

RefChars == {"a", "A", "-", " "}

References == UNION {[1..n -> RefChars] : n \in 0..MaxRefLen}

deliver_payment_reference(ref) ==
    /\ ~has_payment(data, <<"p", "1">>)
    /\ deliver_payment_webhook(Pay(<<"p", "1">>, ref, <<"A", "c">>))

deliver_transaction_reference(ref) ==
    /\ ~has_transaction(data, <<"t", "1">>)
    /\ deliver_transaction_webhook(Txn(<<"t", "1">>, ref, 100, USD, <<"a", "c">>))

NextRefs ==
    \/ \E ref \in References : deliver_payment_reference(ref)
    \/ \E ref \in References \cup {None} : deliver_transaction_reference(ref)

SpecRefs == Init /\ [][NextRefs]_vars

-----------------------------------------------------------------------------
(* The repository called without the existence check, as the handler       *)
(* services/payments/process_payment_webhook.py calls it                    *)

store_payment(payload) ==
    /\ Room(data, has_payment(data, payload.payment_id))
    /\ data' = add_payment(data, payment_data(payload))
    /\ last' = [handler |-> "add_payment",
                duplicate |-> has_payment(data, payload.payment_id),
                result |-> 0, status |-> 200]
    /\ UNCHANGED <<hist, tasks, running, base>>

NextRepo ==
    \/ Next
    \/ \E payload \in PaymentPayloads : store_payment(payload)

SpecRepo == Init /\ [][NextRepo]_vars

-----------------------------------------------------------------------------
(* Two requests in flight: routers/webhooks.py on the asyncio event loop.   *)
(* A task is one request; pc is where it stands:                           *)
(*   body      awaiting request.body() in verify_webhook_signature          *)
(*   exists    before storage.get_payment / get_transaction                 *)
(*   add       before storage.add_payment / add_transaction                 *)
(*   unmatched before storage.get_unmatched_transactions (payment)          *)
(*   loop      at the head of PaymentReconciler's for loop                  *)
(*   find      before TransactionReconciler._find_payment                   *)
(*   link      before storage.add_reconciliation_link                       *)
(*   mark      before storage.update_transaction                            *)
(*   read      before storage.get_payment in update_payment_received        *)
(*   write     before storage.update_payment                                *)
(*   done      response sent                                                *)
(* Each storage call is one step (storage._lock covers one call).           *)

NoRecord == [none |-> TRUE]

Task(e) ==
    [kind |-> e.kind, payload |-> e.payload, pc |-> "body",
     self |-> NoRecord,        \* the record add_payment / add_transaction returned
     todo |-> <<>>,            \* the unmatched transactions still to visit
     txn |-> NoRecord,         \* the transaction being linked
     payment_id |-> None,      \* the payment it is linked to
     match_type |-> NoMatch,
     new_received |-> 0, status |-> "PENDING"]

\* mutant: the handler gives up the event loop before every storage call, as
\* a handler run on worker threads would
Yields_everywhere(pc) == TRUE

\* whether a task standing at pc has given up the event loop: the handlers
\* are coroutines that call the ingest synchronously, so the only await is
\* the one that reads the body
Yields(pc) == pc \in {"body", "done"}

CanRun(i) ==
    /\ i \in 1..Len(tasks)
    /\ running \in {0, i}

\* task i becomes t; the loop is free again only if t stands at an await
Step(i, t) ==
    /\ tasks' = [tasks EXCEPT ![i] = t]
    /\ running' = IF Yields(t.pc) THEN 0 ELSE i
    /\ UNCHANGED <<last, hist, base>>

receive_webhooks(e1, e2) ==
    /\ tasks = <<>>
    /\ tasks' = <<Task(e1), Task(e2)>>
    /\ base' = data
    /\ last' = NoRequest
    /\ UNCHANGED <<data, hist, running>>

verify_webhook_signature(i) ==
    /\ CanRun(i)
    /\ tasks[i].pc = "body"
    /\ Step(i, [tasks[i] EXCEPT !.pc = "exists"])
    /\ UNCHANGED data

check_exists(i) ==
    /\ CanRun(i)
    /\ tasks[i].pc = "exists"
    /\ LET t == tasks[i]
           found == IF t.kind = "payment"
                    THEN has_payment(data, t.payload.payment_id)
                    ELSE has_transaction(data, t.payload.transaction_id)
       IN Step(i, [t EXCEPT !.pc = IF found THEN "done" ELSE "add"])
    /\ UNCHANGED data

store_entity(i) ==
    /\ CanRun(i)
    /\ tasks[i].pc = "add"
    /\ LET t == tasks[i]
       IN IF t.kind = "payment"
          THEN /\ data' = add_payment(data, payment_data(t.payload))
               /\ Step(i, [t EXCEPT
                      !.self = add_payment_record(data, payment_data(t.payload)),
                      !.pc = "unmatched"])
          ELSE /\ data' = add_transaction(data, transaction_data(t.payload))
               /\ Step(i, [t EXCEPT
                      !.self = add_transaction_record(data, transaction_data(t.payload)),
                      !.pc = "find"])

list_unmatched(i) ==
    /\ CanRun(i)
    /\ tasks[i].pc = "unmatched"
    /\ Step(i, [tasks[i] EXCEPT !.todo = get_unmatched_transactions(data),
                                !.pc = "loop"])
    /\ UNCHANGED data

check_match(i) ==
    /\ CanRun(i)
    /\ tasks[i].pc = "loop"
    /\ LET t == tasks[i]
       IN IF t.todo = <<>>
          THEN Step(i, [t EXCEPT !.pc = "done"])
          ELSE IF Head(t.todo).currency # t.self.currency
          THEN Step(i, [t EXCEPT !.todo = Tail(@)])
          ELSE IF _check_match(data, t.self, Head(t.todo)) = NoMatch
          THEN Step(i, [t EXCEPT !.todo = Tail(@)])
          ELSE Step(i, [t EXCEPT
                   !.txn = Head(t.todo),
                   !.todo = Tail(@),
                   !.payment_id = t.self.payment_id,
                   !.match_type = _check_match(data, t.self, Head(t.todo)),
                   !.pc = "link"])
    /\ UNCHANGED data

find_payment(i) ==
    /\ CanRun(i)
    /\ tasks[i].pc = "find"
    /\ LET t == tasks[i]
           m == _find_payment(data, t.self)
       IN IF ~m.found
          THEN Step(i, [t EXCEPT !.pc = "done"])
          ELSE Step(i, [t EXCEPT !.txn = t.self,
                                 !.payment_id = m.payment_id,
                                 !.match_type = m.match_type,
                                 !.pc = "link"])
    /\ UNCHANGED data

add_link(i) ==
    /\ CanRun(i)
    /\ tasks[i].pc = "link"
    /\ LET t == tasks[i]
           txn_amount == to_decimal(t.txn.amount)
       IN /\ data' = add_reconciliation_link(data,
                         [payment_id     |-> t.payment_id,
                          transaction_id |-> t.txn.transaction_id,
                          match_type     |-> t.match_type,
                          amount         |-> txn_amount,
                          notes          |-> IF txn_amount < 0
                                             THEN RefundNote ELSE None])
          /\ Step(i, [t EXCEPT !.pc = "mark"])

mark_transaction(i) ==
    /\ CanRun(i)
    /\ tasks[i].pc = "mark"
    /\ data' = update_transaction(data, tasks[i].txn.transaction_id, TRUE,
                                  tasks[i].payment_id)
    /\ Step(i, [tasks[i] EXCEPT !.pc = "read"])

\* after update_payment_received: the next transaction, or the response
AfterUpdate(t) ==
    [t EXCEPT !.pc = IF t.kind = "payment" THEN "loop" ELSE "done"]

read_payment(i) ==
    /\ CanRun(i)
    /\ tasks[i].pc = "read"
    /\ LET t == tasks[i]
       IN IF ~has_payment(data, t.payment_id)
          THEN Step(i, AfterUpdate(t))
          ELSE LET payment == get_payment(data, t.payment_id)
                   new_received == to_decimal(payment.received_amount)
                                   + to_decimal(t.txn.amount)
               IN Step(i, [t EXCEPT
                      !.new_received = new_received,
                      !.status = calculate_payment_status(
                                     to_decimal(payment.expected_amount),
                                     new_received),
                      !.pc = "write"])
    /\ UNCHANGED data

write_payment(i) ==
    /\ CanRun(i)
    /\ tasks[i].pc = "write"
    /\ data' = update_payment(data, tasks[i].payment_id,
                              DecStr(tasks[i].new_received), tasks[i].status)
    /\ Step(i, AfterUpdate(tasks[i]))

Events ==
    {Event("payment", payload) : payload \in PaymentPayloads}
        \cup {Event("transaction", payload) : payload \in TransactionPayloads}

\* what is stored before the two requests arrive
prepare(e) ==
    /\ tasks = <<>>
    /\ Entities(data) < MaxBase
    /\ data' = Ingest(data, e)
    /\ UNCHANGED <<last, hist, tasks, running, base>>

NextConc ==
    \/ \E e \in Events : prepare(e)
    \/ \E e1, e2 \in Events : receive_webhooks(e1, e2)
    \/ \E i \in 1..2 :
           \/ verify_webhook_signature(i)
           \/ check_exists(i)
           \/ store_entity(i)
           \/ list_unmatched(i)
           \/ check_match(i)
           \/ find_payment(i)
           \/ add_link(i)
           \/ mark_transaction(i)
           \/ read_payment(i)
           \/ write_payment(i)

SpecConc == Init /\ [][NextConc]_vars

-----------------------------------------------------------------------------
(* One request whose storage write fails: storage._save raises (the file    *)
(* cannot be written).  Every write changes self._data first and calls      *)
(* _save() after, and nothing between the storage and the route handler     *)
(* catches the exception or restores self._data.                            *)

receive_webhook(e) ==
    /\ tasks = <<>>
    /\ tasks' = <<Task(e)>>
    /\ base' = data
    /\ last' = NoRequest
    /\ UNCHANGED <<data, hist, running>>

\* what the storage write a task stands before does to self._data
WriteEffect(d, t) ==
    CASE t.pc = "add" ->
             IF t.kind = "payment"
             THEN add_payment(d, payment_data(t.payload))
             ELSE add_transaction(d, transaction_data(t.payload))
      [] t.pc = "link" ->
             add_reconciliation_link(d,
                 [payment_id     |-> t.payment_id,
                  transaction_id |-> t.txn.transaction_id,
                  match_type     |-> t.match_type,
                  amount         |-> to_decimal(t.txn.amount),
                  notes          |-> IF to_decimal(t.txn.amount) < 0
                                     THEN RefundNote ELSE None])
      [] t.pc = "mark" ->
             update_transaction(d, t.txn.transaction_id, TRUE, t.payment_id)
      [] t.pc = "write" ->
             update_payment(d, t.payment_id, DecStr(t.new_received), t.status)

\* the write is made in memory, _save raises, the exception leaves the handler
storage_failure(i) ==
    /\ CanRun(i)
    /\ tasks[i].pc \in {"add", "link", "mark", "write"}
    /\ data' = WriteEffect(data, tasks[i])
    /\ tasks' = [tasks EXCEPT ![i].pc = "failed"]
    /\ running' = 0
    /\ UNCHANGED <<last, hist, base>>

NextFail ==
    \/ \E e \in Events : prepare(e)
    \/ \E e \in Events : receive_webhook(e)
    \/ verify_webhook_signature(1)
    \/ check_exists(1)
    \/ store_entity(1)
    \/ list_unmatched(1)
    \/ check_match(1)
    \/ find_payment(1)
    \/ add_link(1)
    \/ mark_transaction(1)
    \/ read_payment(1)
    \/ write_payment(1)
    \/ storage_failure(1)

SpecFail == Init /\ [][NextFail]_vars

-----------------------------------------------------------------------------
(* Signed requests: dependencies/webhooks.py in front of the two handlers.  *)
(* The body is the JSON object of a payload plus sandbox_id.  HMAC-SHA256   *)
(* is a digest without collisions: the pair of its key and its message.  A  *)
(* header value is what precedes the digest, the digest, and whether all    *)
(* its characters are ASCII (a header is decoded as latin-1, so bytes above *)
(* 0x7f arrive as non-ASCII characters of the str).                         *)

webhook_secret == <<"k">>

OtherSecret == <<"x">>

SandboxIds == {<<"s", "1">>, <<"s", "2">>}

\* the parsed body of the request that delivers event e
Body(e, sandbox_id) ==
    [k \in DOMAIN e.payload \cup {"sandbox_id"} |->
        IF k = "sandbox_id" THEN sandbox_id ELSE e.payload[k]]

payload_for_signature(payload) ==
    [k \in DOMAIN payload \ {"sandbox_id"} |-> payload[k]]

\* json.dumps(..., sort_keys=True, separators=(',', ':')): one text per map
canonical_json(payload) == <<"json", payload>>

hmac_sha256_hexdigest(key, msg) == [key |-> key, msg |-> msg]

Signature(prefix, key, msg, ascii) ==
    [prefix |-> prefix, digest |-> hmac_sha256_hexdigest(key, msg), ascii |-> ascii]

expected_signature(payload) ==
    Signature("sha256=", webhook_secret,
              canonical_json(payload_for_signature(payload)), TRUE)

\* hmac.compare_digest(a, b) of two str: TypeError unless both are ASCII
compare_digest(a, b) ==
    IF ~a.ascii \/ ~b.ascii THEN "TypeError"
    ELSE IF a = b THEN "True"
    ELSE "False"

\* the X-Webhook-Signature values sent with the body
SignatureHeaders(body) ==
    LET msg == canonical_json(payload_for_signature(body))
    IN { \* the provider's signature
         Signature("sha256=", webhook_secret, msg, TRUE),
         \* signed with another key
         Signature("sha256=", OtherSecret, msg, TRUE),
         \* signed over the body with its sandbox_id
         Signature("sha256=", webhook_secret, canonical_json(body), TRUE),
         \* the digest without its prefix
         Signature("", webhook_secret, msg, TRUE),
         \* a wrong value with a byte above 0x7f
         Signature("sha256=", OtherSecret, msg, FALSE) }

\* the response of a request that verify_webhook_signature ended
Rejected(e, status) ==
    [handler |-> e.kind, duplicate |-> FALSE, result |-> 0, status |-> status]

\* verify_webhook_signature, then the route handler if it returned the payload
post_webhook(e, sandbox_id, x_webhook_signature) ==
    LET payload == Body(e, sandbox_id)
        equal == compare_digest(expected_signature(payload), x_webhook_signature)
    IN /\ x_webhook_signature \in SignatureHeaders(payload)
       /\ CASE equal = "TypeError" ->
                   \* the exception is not caught: 500
                   /\ last' = Rejected(e, 500)
                   /\ UNCHANGED <<data, hist, tasks, running, base>>
            [] equal = "False" ->
                   \* HTTPException(status_code=401)
                   /\ last' = Rejected(e, 401)
                   /\ UNCHANGED <<data, hist, tasks, running, base>>
            [] equal = "True" ->
                   IF e.kind = "payment"
                   THEN handle_payment_webhook(e.payload)
                   ELSE handle_transaction_webhook(e.payload)

AuthEvents ==
    {e \in Events :
        \/ e.kind = "payment"
        \/ e.payload.transaction_id \in {<<"t", "1">>, <<"t", "2">>, <<"t", "3">>}}

NextAuth ==
    \E e \in AuthEvents, sandbox_id \in SandboxIds :
        \E x_webhook_signature \in SignatureHeaders(Body(e, sandbox_id)) :
            post_webhook(e, sandbox_id, x_webhook_signature)

SpecAuth == Init /\ [][NextAuth]_vars

-----------------------------------------------------------------------------
(* The status calculation on its own: update_payment_received hands         *)
(* calculate_payment_status the payment's expected amount and the new sum   *)
(* of what it received.  The expected amount of a payment stays what it was *)
(* at the first call; the sum changes from call to call.                    *)

ExpectedAmounts == 0..MaxExpected

ReceivedAmounts == (0 - 2)..(MaxExpected + 2)

calculate_status(expected, received) ==
    /\ IF last.handler = "none" THEN TRUE ELSE last.expected = expected
    /\ last' = [handler |-> "calculate_payment_status", duplicate |-> FALSE,
                result |-> calculate_payment_status(expected, received),
                status |-> 0, expected |-> expected, received |-> received]
    /\ UNCHANGED <<data, hist, tasks, running, base>>

NextStatus ==
    \E expected \in ExpectedAmounts, received \in ReceivedAmounts :
        calculate_status(expected, received)

SpecStatus == Init /\ [][NextStatus]_vars

-----------------------------------------------------------------------------
(* Properties *)

RECURSIVE LinkSum(_, _)
LinkSum(links, payment_id) ==
    IF links = <<>>
    THEN 0
    ELSE (IF Head(links).payment_id = payment_id THEN Head(links).amount ELSE 0)
         + LinkSum(Tail(links), payment_id)

LinksOfPayment(d, payment_id) ==
    {i \in 1..Len(d.reconciliation_links) :
        d.reconciliation_links[i].payment_id = payment_id}

LinksOfTransaction(d, transaction_id) ==
    {i \in 1..Len(d.reconciliation_links) :
        d.reconciliation_links[i].transaction_id = transaction_id}

\* C1: every payment's received_amount is the signed sum of the amounts of the
\* links that carry its payment_id (0 without links)
C1_ReceivedIsLinkSum ==
    \A p \in Range(data.payments) :
        to_decimal(p.received_amount)
            = LinkSum(data.reconciliation_links, p.payment_id)

\* a payment with several links, one of them a refund, and money left on it
C1_Witness ==
    \E p \in Range(data.payments) :
        /\ Cardinality(LinksOfPayment(data, p.payment_id)) >= 2
        /\ \E i \in LinksOfPayment(data, p.payment_id) :
               data.reconciliation_links[i].amount < 0
        /\ to_decimal(p.received_amount) > 0

MatchedIffLinked ==
    \A t \in Range(data.transactions) :
        t.matched <=> LinksOfTransaction(data, t.transaction_id) # {}

StaysMatched ==
    \A t \in Range(data.transactions) :
        t.matched =>
            /\ has_transaction(data', t.transaction_id)
            /\ get_transaction(data', t.transaction_id).matched

\* C2: a transaction is matched iff some link references it, and a matched
\* transaction stays matched in every later state
C2_MatchedIffLinked == [](MatchedIffLinked) /\ [][StaysMatched]_vars

\* a matched transaction, seen again after a later request
C2_Witness ==
    /\ \E t \in Range(data.transactions) : t.matched
    /\ \E t \in Range(data.transactions) : ~t.matched
    /\ last.duplicate

\* C3: every payment's status is calculate_payment_status of its stored
\* expected and received amounts
C3_StatusIsFunction ==
    \A p \in Range(data.payments) :
        p.status = calculate_payment_status(to_decimal(p.expected_amount),
                                            to_decimal(p.received_amount))

\* a refund has taken a fully paid payment back to partially paid
C3_Witness ==
    \E p \in Range(data.payments) :
        /\ p.status = "PARTIALLY_PAID"
        /\ \E i \in LinksOfPayment(data, p.payment_id) :
               /\ data.reconciliation_links[i].notes = RefundNote
               /\ to_decimal(p.received_amount)
                      - data.reconciliation_links[i].amount
                      >= to_decimal(p.expected_amount)

AtMostOneLink ==
    \A t \in Range(data.transactions) :
        Cardinality(LinksOfTransaction(data, t.transaction_id)) <= 1

NewLinks == (Len(data.reconciliation_links) + 1)..Len(data'.reconciliation_links)

TransactionIngestLinksOnce ==
    \A payload \in TransactionPayloads :
        (Cardinality(NewLinks) > 1) => ~handle_transaction_webhook(payload)

PaymentIngestLinksUnmatched ==
    \A payload \in PaymentPayloads :
        (NewLinks # {} /\ handle_payment_webhook(payload)) =>
            \A i \in NewLinks :
                LET link == data'.reconciliation_links[i]
                IN /\ has_transaction(data, link.transaction_id)
                   /\ ~get_transaction(data, link.transaction_id).matched
                   /\ \A j \in NewLinks :
                          data'.reconciliation_links[j].transaction_id
                              = link.transaction_id => j = i

\* C4: no transaction is referenced by two links; a transaction ingest makes at
\* most one link, a payment ingest links only transactions that were unmatched,
\* each once
C4_AtMostOneLink ==
    /\ [](AtMostOneLink)
    /\ [][TransactionIngestLinksOnce /\ PaymentIngestLinksUnmatched]_vars

\* a matched transaction whose reference also matches a second stored payment
C4_Witness ==
    \E t \in Range(data.transactions) :
        /\ t.matched
        /\ \E p, q \in Range(data.payments) :
               /\ p.payment_id # q.payment_id
               /\ p.currency = t.currency /\ q.currency = t.currency
               /\ match_reference(t.reference, p.reference) # NoMatch
               /\ match_reference(t.reference, q.reference) # NoMatch

DuplicateKeyNoChange ==
    /\ \A payload \in PaymentPayloads :
           (has_payment(data, payload.payment_id) /\ handle_payment_webhook(payload))
               => data' = data
    /\ \A payload \in TransactionPayloads :
           (has_transaction(data, payload.transaction_id)
                /\ handle_transaction_webhook(payload))
               => data' = data

\* a webhook whose key is already stored changes nothing in the storage
C5_DuplicateKeyNoChange == [][DuplicateKeyNoChange]_vars

TwiceIsOnce ==
    /\ \A payload \in PaymentPayloads :
           Room(data, has_payment(data, payload.payment_id)) =>
               ProcessPaymentWebhook(
                   ProcessPaymentWebhook(data, payload).data, payload).data
                   = ProcessPaymentWebhook(data, payload).data
    /\ \A payload \in TransactionPayloads :
           Room(data, has_transaction(data, payload.transaction_id)) =>
               ProcessTransactionWebhook(
                   ProcessTransactionWebhook(data, payload).data, payload).data
                   = ProcessTransactionWebhook(data, payload).data

\* C5: a webhook whose key is already stored leaves the storage unchanged, and
\* so handling the same webhook again leaves the storage as the first handling
\* left it
C5_Idempotent == [][DuplicateKeyNoChange]_vars /\ [](TwiceIsOnce)

\* no stored payment is found for a transaction that carries a reference:
\* none of its currency matches the reference and, for a negative amount, no
\* link leads to a payment of its currency and payer
NoPaymentMatches(d, payload) ==
    /\ \A p \in Range(d.payments) :
           p.currency = payload.currency
               => match_reference(payload.reference, p.reference) = NoMatch
    /\ payload.amount < 0 =>
           \A l \in Range(d.reconciliation_links) :
               \A p \in Range(d.payments) :
                   (p.payment_id = l.payment_id /\ p.currency = payload.currency)
                       => ~payer_matches(payload.payer_name, p.payer_name)

UnmatchedStays ==
    \A payload \in TransactionPayloads :
        ( /\ last'.handler = "transaction"
          /\ ~has_transaction(data, payload.transaction_id)
          /\ Truthy(payload.reference)
          /\ NoPaymentMatches(data, payload)
          /\ handle_transaction_webhook(payload) )
        => LET id == add_transaction_record(data, transaction_data(payload)).transaction_id
           IN /\ ~get_transaction(data', id).matched
              /\ data'.reconciliation_links = data.reconciliation_links
              /\ data'.payments = data.payments

RetroactiveMatch ==
    \A payload \in PaymentPayloads :
        ( /\ last'.handler = "payment"
          /\ ~has_payment(data, payload.payment_id)
          /\ handle_payment_webhook(payload) )
        => LET pid == add_payment_record(data, payment_data(payload)).payment_id
           IN \A t \in Range(data.transactions) :
                  ( /\ ~t.matched
                    /\ t.currency = payload.currency
                    /\ match_reference(t.reference, payload.reference) # NoMatch )
                  => /\ get_transaction(data', t.transaction_id).matched
                     /\ get_transaction(data', t.transaction_id).matched_to_payment_id = pid
                     /\ \E i \in LinksOfTransaction(data', t.transaction_id) :
                            LET link == data'.reconciliation_links[i]
                            IN /\ link.payment_id = pid
                               /\ link.match_type
                                      = match_reference(t.reference, payload.reference)
                               /\ link.amount = to_decimal(t.amount)
                     /\ to_decimal(get_payment(data', pid).received_amount)
                            = LinkSum(data'.reconciliation_links, pid)

\* C8: a transaction with a reference that finds no payment stays unmatched;
\* when a payment of its currency whose reference matches is stored later, the
\* payment's ingest links the transaction to it with the match type
\* match_reference gives, and the payment's received_amount counts its amount
C8_RetroactiveMatch == [][UnmatchedStays /\ RetroactiveMatch]_vars

\* a payment ingest has just linked two waiting transactions by reference, one
\* of them FUZZY_REF
C8_Witness ==
    /\ last.handler = "payment"
    /\ ~last.duplicate
    /\ last.result >= 2
    /\ LET p == data.payments[Len(data.payments)]
       IN /\ \E i \in LinksOfPayment(data, p.payment_id) :
                 data.reconciliation_links[i].match_type = "FUZZY_REF"
          /\ \E i \in LinksOfPayment(data, p.payment_id) :
                 data.reconciliation_links[i].match_type = "EXACT"

LinkPairs(d) ==
    {<<l.payment_id, l.transaction_id>> : l \in Range(d.reconciliation_links)}

PaymentStates(d) ==
    {<<p.payment_id, to_decimal(p.received_amount), p.status>> :
        p \in Range(d.payments)}

Reordered(events, perm) == [i \in 1..Len(events) |-> events[perm[i]]]

\* C9: two orders of the same webhooks that end with the same (payment_id,
\* transaction_id) links leave every payment with the same received_amount and
\* status
C9_OrderIndependent ==
    \A perm \in Permutations(1..Len(hist)) :
        LET other == Run(EmptyData, Reordered(hist, perm))
        IN LinkPairs(other) = LinkPairs(data)
               => PaymentStates(other) = PaymentStates(data)

\* two links on one payment, and another order of the same webhooks that ends
\* with the same links; a third order ends with other links
C9_Witness ==
    /\ data = Run(EmptyData, hist)
    /\ \E p \in Range(data.payments) :
           Cardinality(LinksOfPayment(data, p.payment_id)) >= 2
    /\ \E perm \in Permutations(1..Len(hist)) :
           /\ Reordered(hist, perm) # hist
           /\ LinkPairs(Run(EmptyData, Reordered(hist, perm))) = LinkPairs(data)
    /\ \E perm \in Permutations(1..Len(hist)) :
           LinkPairs(Run(EmptyData, Reordered(hist, perm))) # LinkPairs(data)

AddExistingReturnsExisting ==
    \A payload \in PaymentPayloads :
        (last'.handler = "add_payment" /\ store_payment(payload)) =>
            IF has_payment(data, payload.payment_id)
            THEN data' = data
            ELSE LET rec == data'.payments[Len(data'.payments)]
                 IN /\ Len(data'.payments) = Len(data.payments) + 1
                    /\ rec.status = "PENDING"
                    /\ to_decimal(rec.received_amount) = 0

\* C10: add_payment with a stored payment_id leaves the stored record as it is;
\* with a new payment_id it inserts a record with status PENDING and received 0
C10_AddPaymentKeepsExisting == [][AddExistingReturnsExisting]_vars

AllDone == tasks # <<>> /\ \A i \in 1..Len(tasks) : tasks[i].pc = "done"

TaskEvent(i) == Event(tasks[i].kind, tasks[i].payload)

SerialOutcomes ==
    {Run(base, <<TaskEvent(1), TaskEvent(2)>>),
     Run(base, <<TaskEvent(2), TaskEvent(1)>>)}

InHandler(i) == tasks[i].pc \notin {"body", "done"}

\* C6: two concurrent ingests never both stand inside their handlers, the
\* final storage is that of one of the two serial orders, and no transaction
\* ends up with two links
C6_Serializable ==
    /\ \A i, j \in 1..Len(tasks) : (InHandler(i) /\ InHandler(j)) => i = j
    /\ AllDone => (data \in SerialOutcomes /\ AtMostOneLink)

\* both requests are answered, a payment and a transaction were stored and
\* linked, and the two serial orders differ
C6_Witness ==
    /\ AllDone
    /\ tasks[1].kind # tasks[2].kind
    /\ Len(data.payments) + Len(data.transactions) = Entities(base) + 2
    /\ Len(data.reconciliation_links) > Len(base.reconciliation_links)
    /\ Run(base, <<TaskEvent(1), TaskEvent(2)>>)
           # Run(base, <<TaskEvent(2), TaskEvent(1)>>)

SameWebhook == Len(tasks) = 2 /\ TaskEvent(1) = TaskEvent(2)

HasKey(e) ==
    IF e.kind = "payment"
    THEN Truthy(e.payload.payment_id)
    ELSE Truthy(e.payload.transaction_id)

\* C7: two concurrent deliveries of the same webhook leave the storage as one
\* delivery leaves it: the entity is stored once, no link is duplicated and no
\* payment that has links is reset
C7_SameKeyOnce ==
    (AllDone /\ SameWebhook) =>
        /\ data = Ingest(base, TaskEvent(1))
        /\ C1_ReceivedIsLinkSum
        /\ AtMostOneLink

\* the same for a webhook that carries an id
C7_NonEmptyKeyOnce ==
    (AllDone /\ SameWebhook /\ HasKey(TaskEvent(1))) =>
        /\ data = Ingest(base, TaskEvent(1))
        /\ C1_ReceivedIsLinkSum
        /\ AtMostOneLink

Failed(i) == i \in 1..Len(tasks) /\ tasks[i].pc = "failed"

\* C11: when a storage write of an ingest fails, the storage is what it was
\* before the ingest began
C11_FailureLeavesNoTrace == \A i \in 1..Len(tasks) : Failed(i) => data = base

\* the signature that was sent with the last request did not match
LastRejected == last.status \in {401, 500}

\* C12: a request whose X-Webhook-Signature differs from the signature of its
\* body without sandbox_id is answered 401 Unauthorized and changes nothing in
\* the storage; a request whose signature matches reaches its handler
C12_Unauthorized ==
    [][\A e \in AuthEvents, sandbox_id \in SandboxIds :
          \A h \in SignatureHeaders(Body(e, sandbox_id)) :
              post_webhook(e, sandbox_id, h) =>
                  IF h = expected_signature(Body(e, sandbox_id))
                  THEN last'.status = 200 /\ data' = Ingest(data, e)
                  ELSE last'.status = 401 /\ data' = data]_vars

\* whatever the answer, a request whose signature differs changes nothing in
\* the storage
C12_MismatchNotIngested ==
    [][\A e \in AuthEvents, sandbox_id \in SandboxIds :
          \A h \in SignatureHeaders(Body(e, sandbox_id)) :
              (h # expected_signature(Body(e, sandbox_id))
                   /\ post_webhook(e, sandbox_id, h))
                  => last'.status \in {401, 500} /\ data' = data]_vars

LinkIntegrity ==
    \A l \in Range(data.reconciliation_links) :
        /\ has_payment(data, l.payment_id)
        /\ has_transaction(data, l.transaction_id)
        /\ get_payment(data, l.payment_id).currency
               = get_transaction(data, l.transaction_id).currency

\* every stored payment and transaction keeps its place and its id, and the
\* links stored before the step are the first links after it
AppendOnly ==
    /\ Len(data'.payments) >= Len(data.payments)
    /\ \A i \in 1..Len(data.payments) :
           data'.payments[i].payment_id = data.payments[i].payment_id
    /\ Len(data'.transactions) >= Len(data.transactions)
    /\ \A i \in 1..Len(data.transactions) :
           data'.transactions[i].transaction_id = data.transactions[i].transaction_id
    /\ Len(data'.reconciliation_links) >= Len(data.reconciliation_links)
    /\ SubSeq(data'.reconciliation_links, 1, Len(data.reconciliation_links))
           = data.reconciliation_links

LinksAdded == Len(data'.reconciliation_links) - Len(data.reconciliation_links)

TransactionReconcilerResult ==
    \A payload \in TransactionPayloads :
        ( /\ last'.handler = "transaction"
          /\ ~has_transaction(data, payload.transaction_id)
          /\ handle_transaction_webhook(payload) )
        => LET id == add_transaction_record(data, transaction_data(payload)).transaction_id
           IN /\ last'.result \in {0, 1}
              /\ last'.result = 1 =>
                     /\ LinksAdded = 1
                     /\ Cardinality(LinksOfTransaction(data', id)) = 1
                     /\ get_transaction(data', id).matched
              /\ last'.result = 0 =>
                     /\ data'.reconciliation_links = data.reconciliation_links
                     /\ data'.payments = data.payments
                     /\ ~get_transaction(data', id).matched

PaymentReconcilerResult ==
    \A payload \in PaymentPayloads :
        ( /\ last'.handler = "payment"
          /\ ~has_payment(data, payload.payment_id)
          /\ handle_payment_webhook(payload) )
        => LET pid == add_payment_record(data, payment_data(payload)).payment_id
           IN /\ last'.result = LinksAdded
              /\ last'.result = Cardinality(LinksOfPayment(data', pid))

ReferenceMatches(d, ref, currency) ==
    {i \in 1..Len(d.payments) :
        /\ d.payments[i].currency = currency
        /\ match_reference(ref, d.payments[i].reference) # NoMatch}

Min(S) == CHOOSE i \in S : \A j \in S : i <= j

FirstReferenceMatch ==
    \A payload \in TransactionPayloads :
        ( /\ last'.handler = "transaction"
          /\ ~has_transaction(data, payload.transaction_id)
          /\ Truthy(payload.reference)
          /\ ReferenceMatches(data, payload.reference, payload.currency) # {}
          /\ handle_transaction_webhook(payload) )
        => LET id == add_transaction_record(data, transaction_data(payload)).transaction_id
               p == data.payments[
                        Min(ReferenceMatches(data, payload.reference, payload.currency))]
           IN /\ get_transaction(data', id).matched
              /\ get_transaction(data', id).matched_to_payment_id = p.payment_id
              /\ Cardinality(LinksOfTransaction(data', id)) = 1
              /\ \A i \in LinksOfTransaction(data', id) :
                     /\ data'.reconciliation_links[i].payment_id = p.payment_id
                     /\ data'.reconciliation_links[i].match_type
                            = match_reference(payload.reference, p.reference)

AboutToLinkAmountOnly(i) ==
    /\ i \in 1..Len(tasks)
    /\ tasks[i].pc = "link"
    /\ tasks[i].match_type = "AMOUNT_ONLY"

LinkTransaction(l) == get_transaction(data, l.transaction_id)

LinkPayment(l) == get_payment(data, l.payment_id)

BothPresent(l) ==
    Truthy(LinkTransaction(l).reference) /\ Truthy(LinkPayment(l).reference)

EqualTrimmed(l) ==
    BothPresent(l)
        /\ strip(LinkTransaction(l).reference) = strip(LinkPayment(l).reference)

EqualNormalized(l) ==
    BothPresent(l)
        /\ normalize_ref(LinkTransaction(l).reference)
               = normalize_ref(LinkPayment(l).reference)

\* a link as rule 3, refund by payer, makes it
RefundByPayerLink(l) ==
    /\ l.amount < 0
    /\ l.notes = RefundNote
    /\ payer_matches(LinkTransaction(l).payer_name, LinkPayment(l).payer_name)

PayerAmountMatches(d, payload) ==
    /\ ~Truthy(payload.reference)
    /\ \E p \in Range(d.payments) :
           /\ p.currency = payload.currency
           /\ p.status \in {"PENDING", "PARTIALLY_PAID"}
           /\ payer_matches(payload.payer_name, p.payer_name)
           /\ amount_matches_remaining(abs(payload.amount), p)

\* the places of the links whose payment has the payload's currency and payer
RefundLinks(d, payload) ==
    {i \in 1..Len(d.reconciliation_links) :
        /\ has_payment(d, d.reconciliation_links[i].payment_id)
        /\ get_payment(d, d.reconciliation_links[i].payment_id).currency
               = payload.currency
        /\ payer_matches(payload.payer_name,
               get_payment(d, d.reconciliation_links[i].payment_id).payer_name)}

RefundByPayer ==
    \A payload \in SettlementTransactions :
        ( /\ last'.handler = "transaction"
          /\ payload.amount < 0
          /\ ~has_transaction(data, payload.transaction_id)
          /\ ReferenceMatches(data, payload.reference, payload.currency) = {}
          /\ ~PayerAmountMatches(data, payload)
          /\ handle_transaction_webhook(payload) )
        => LET id == payload.transaction_id
           IN IF RefundLinks(data, payload) = {}
              THEN /\ ~get_transaction(data', id).matched
                   /\ data'.reconciliation_links = data.reconciliation_links
                   /\ data'.payments = data.payments
              ELSE LET first == data.reconciliation_links[Min(RefundLinks(data, payload))]
                       before == get_payment(data, first.payment_id)
                       after == get_payment(data', first.payment_id)
                   IN /\ data'.reconciliation_links
                             = Append(data.reconciliation_links,
                                      [payment_id     |-> first.payment_id,
                                       transaction_id |-> id,
                                       match_type     |-> "EXACT",
                                       amount         |-> payload.amount,
                                       notes          |-> RefundNote])
                      /\ get_transaction(data', id).matched
                      /\ get_transaction(data', id).matched_to_payment_id
                             = first.payment_id
                      /\ to_decimal(after.received_amount)
                             = to_decimal(before.received_amount) - abs(payload.amount)
                      /\ after.status
                             = calculate_payment_status(
                                   to_decimal(after.expected_amount),
                                   to_decimal(after.received_amount))

RECURSIVE SumBefore(_, _, _)
SumBefore(txns, linked, k) ==
    IF k <= 1
    THEN 0
    ELSE SumBefore(txns, linked, k - 1)
         + (IF (k - 1) \in linked THEN to_decimal(txns[k - 1].amount) ELSE 0)

\* the payment as it is stored when the pass reaches the k-th transaction
PaymentDuringPass(payload, txns, linked, k) ==
    [expected_amount |-> DecStr(payload.expected_amount),
     received_amount |-> DecStr(SumBefore(txns, linked, k)),
     status |-> calculate_payment_status(payload.expected_amount,
                                         SumBefore(txns, linked, k))]

RetroactivePassRereads ==
    \A payload \in SettlementPayments :
        ( /\ last'.handler = "payment"
          /\ ~has_payment(data, payload.payment_id)
          /\ handle_payment_webhook(payload) )
        => LET txns == get_unmatched_transactions(data)
               linked == {k \in 1..Len(txns) :
                             get_transaction(data', txns[k].transaction_id).matched}
           IN \A k \in 1..Len(txns) :
                  LET t == txns[k]
                      p == PaymentDuringPass(payload, txns, linked, k)
                      types == {data'.reconciliation_links[i].match_type :
                                   i \in LinksOfTransaction(data', t.transaction_id)}
                  IN IF t.currency # payload.currency
                     THEN k \notin linked
                     ELSE IF match_reference(t.reference, payload.reference) # NoMatch
                     THEN /\ k \in linked
                          /\ types = {match_reference(t.reference, payload.reference)}
                     ELSE IF /\ ~Truthy(t.reference)
                             /\ to_decimal(t.amount) > 0
                             /\ payer_matches(t.payer_name, payload.payer_name)
                     THEN /\ k \in linked <=>
                                 /\ p.status \in {"PENDING", "PARTIALLY_PAID"}
                                 /\ amount_matches_remaining(to_decimal(t.amount), p)
                          /\ k \in linked => types = {"AMOUNT_ONLY"}
                     ELSE k \notin linked

\* C19: in the pass of one payment ingest over the unmatched transactions,
\* each AMOUNT_ONLY decision is taken on the payment's status and
\* received_amount as the links made earlier in the pass left them: after
\* the payment is FULLY_PAID or OVERPAID no transaction without a reference
\* is linked, and transactions whose reference matches still are
C19_RetroactivePassRereads == [][RetroactivePassRereads]_vars

\* a payment ingest has just linked a transaction AMOUNT_ONLY, passed over a
\* later transaction of the payer without a reference, and linked by
\* reference a transaction stored after that one
C19_Witness ==
    /\ last.handler = "payment"
    /\ ~last.duplicate
    /\ last.result = 2
    /\ Len(data.reconciliation_links) = 2
    /\ LET p == data.payments[Len(data.payments)]
       IN \E i, j, k \in 1..Len(data.transactions) :
              /\ i < j /\ j < k
              /\ data.reconciliation_links[1].transaction_id
                     = data.transactions[i].transaction_id
              /\ data.reconciliation_links[1].match_type = "AMOUNT_ONLY"
              /\ ~data.transactions[j].matched
              /\ ~Truthy(data.transactions[j].reference)
              /\ to_decimal(data.transactions[j].amount) > 0
              /\ data.transactions[j].currency = p.currency
              /\ payer_matches(data.transactions[j].payer_name, p.payer_name)
              /\ data.reconciliation_links[2].transaction_id
                     = data.transactions[k].transaction_id
              /\ data.reconciliation_links[2].match_type \in {"EXACT", "FUZZY_REF"}
              /\ p.status = "OVERPAID"

NoRetroactiveRefundByPayer ==
    \A payload \in SettlementPayments :
        ( /\ last'.handler = "payment"
          /\ ~has_payment(data, payload.payment_id)
          /\ handle_payment_webhook(payload) )
        => \A t \in Range(get_unmatched_transactions(data)) :
               ( /\ to_decimal(t.amount) <= 0
                 /\ get_transaction(data', t.transaction_id).matched )
               => /\ t.currency = payload.currency
                  /\ match_reference(t.reference, payload.reference) # NoMatch
                  /\ \A i \in LinksOfTransaction(data', t.transaction_id) :
                         data'.reconciliation_links[i].match_type
                             = match_reference(t.reference, payload.reference)

\* C20: a payment ingest links an unmatched transaction whose amount is zero
\* or negative only when match_reference accepts the two references; payer
\* names alone never link it, although the payment may have links by then
C20_NoRetroactiveRefundByPayer == [][NoRetroactiveRefundByPayer]_vars

\* a payment ingest has just linked a refund by its reference and left
\* unmatched a later refund and a zero amount of the same payer
C20_Witness ==
    /\ last.handler = "payment"
    /\ ~last.duplicate
    /\ last.result >= 1
    /\ LET p == data.payments[Len(data.payments)]
       IN \E i, j, k \in 1..Len(data.transactions) :
              /\ i < j
              /\ data.transactions[i].matched
              /\ data.transactions[i].matched_to_payment_id = p.payment_id
              /\ to_decimal(data.transactions[i].amount) < 0
              /\ ~data.transactions[j].matched
              /\ to_decimal(data.transactions[j].amount) < 0
              /\ data.transactions[j].currency = p.currency
              /\ payer_matches(data.transactions[j].payer_name, p.payer_name)
              /\ ~data.transactions[k].matched
              /\ to_decimal(data.transactions[k].amount) = 0
              /\ ~Truthy(data.transactions[k].reference)
              /\ payer_matches(data.transactions[k].payer_name, p.payer_name)

\* what is short of the expected amount is at most the tolerance
WithinTolerance(expected, received) ==
    100 * (expected - received) <= expected * FeeTolerancePercent

\* C21: for expected >= 0 the status is PENDING iff received <= 0; otherwise
\* OVERPAID iff received > expected; otherwise FULLY_PAID iff received is at
\* least expected less the tolerance; otherwise PARTIALLY_PAID.  So received =
\* expected > 0 is FULLY_PAID and any excess is OVERPAID whatever the tolerance
C21_StatusTable ==
    last.handler = "calculate_payment_status" =>
        LET e == last.expected
            r == last.received
        IN /\ last.result = "PENDING" <=> r <= 0
           /\ last.result = "OVERPAID" <=> (r > 0 /\ r > e)
           /\ last.result = "FULLY_PAID"
                  <=> (r > 0 /\ r <= e /\ WithinTolerance(e, r))
           /\ last.result = "PARTIALLY_PAID"
                  <=> (r > 0 /\ r <= e /\ ~WithinTolerance(e, r))
           /\ (r = e /\ e > 0) => last.result = "FULLY_PAID"
           /\ r > e => last.result = "OVERPAID"

\* an amount one unit short of the expected one, within the tolerance, is
\* FULLY_PAID
C21_Witness ==
    /\ last.handler = "calculate_payment_status"
    /\ last.received = last.expected - 1
    /\ last.result = "FULLY_PAID"

\* the links stored before the step are the first links after it
LinksKept ==
    /\ Len(data'.reconciliation_links) >= Len(data.reconciliation_links)
    /\ SubSeq(data'.reconciliation_links, 1, Len(data.reconciliation_links))
           = data.reconciliation_links

\* the two records differ in nothing but received_amount and status
SameButReceived(p, q) ==
    [q EXCEPT !.received_amount = p.received_amount, !.status = p.status] = p

\* the two records differ in nothing but matched and matched_to_payment_id
SameButMatched(t, u) ==
    [u EXCEPT !.matched = t.matched,
              !.matched_to_payment_id = t.matched_to_payment_id] = t

TransactionIngestFrame ==
    \A payload \in TransactionPayloads :
        (last'.handler = "transaction" /\ handle_transaction_webhook(payload))
        => LET changed == {i \in 1..Len(data.payments) :
                              data'.payments[i] # data.payments[i]}
           IN /\ Len(data'.payments) = Len(data.payments)
              /\ Cardinality(changed) <= 1
              /\ \A i \in changed :
                     /\ SameButReceived(data.payments[i], data'.payments[i])
                     /\ \E k \in NewLinks :
                            data'.reconciliation_links[k].payment_id
                                = data.payments[i].payment_id
              /\ Len(data'.transactions) \in
                     {Len(data.transactions), Len(data.transactions) + 1}
              /\ \A i \in 1..Len(data.transactions) :
                     data'.transactions[i] = data.transactions[i]
              /\ LinksKept
              /\ Cardinality(NewLinks) <= 1
              /\ \A k \in NewLinks :
                     /\ Len(data'.transactions) = Len(data.transactions) + 1
                     /\ data'.reconciliation_links[k].transaction_id
                            = data'.transactions[Len(data'.transactions)].transaction_id

PaymentIngestFrame ==
    \A payload \in PaymentPayloads :
        (last'.handler = "payment" /\ handle_payment_webhook(payload))
        => /\ Len(data'.payments) \in {Len(data.payments), Len(data.payments) + 1}
           /\ \A i \in 1..Len(data.payments) :
                  data'.payments[i] = data.payments[i]
           /\ LinksKept
           /\ \A k \in NewLinks :
                  /\ Len(data'.payments) = Len(data.payments) + 1
                  /\ data'.reconciliation_links[k].payment_id
                         = data'.payments[Len(data'.payments)].payment_id
           /\ Len(data'.transactions) = Len(data.transactions)
           /\ \A i \in 1..Len(data.transactions) :
                  data'.transactions[i] # data.transactions[i] =>
                      /\ SameButMatched(data.transactions[i], data'.transactions[i])
                      /\ \E k \in NewLinks :
                             data'.reconciliation_links[k].transaction_id
                                 = data.transactions[i].transaction_id

\* C22: a transaction ingest changes received_amount and status of at most
\* one payment, the one its new link names, and no stored transaction but the
\* one it adds; a payment ingest changes no stored payment, makes links only
\* to the payment it adds and changes only the matched fields of the
\* transactions it links; stored links stay as they are
C22_IngestFrame == [][TransactionIngestFrame /\ PaymentIngestFrame]_vars

\* a payment ingest has just linked a waiting transaction while another
\* payment has a link of its own and another transaction stays unmatched
C22_Witness ==
    /\ last.handler = "payment"
    /\ ~last.duplicate
    /\ last.result >= 1
    /\ LET p == data.payments[Len(data.payments)]
       IN /\ \E q \in Range(data.payments) :
                 /\ q.payment_id # p.payment_id
                 /\ LinksOfPayment(data, q.payment_id) # {}
                 /\ to_decimal(q.received_amount) # 0
          /\ \E t \in Range(data.transactions) : ~t.matched

\* C23: every link's amount is the amount of the transaction it names, sign
\* included, and its notes are "Refund" if that amount is negative and none
\* otherwise
C23_LinkAmount ==
    \A l \in Range(data.reconciliation_links) :
        /\ has_transaction(data, l.transaction_id)
        /\ get_transaction(data, l.transaction_id).amount = DecStr(l.amount)
        /\ l.notes = RefundNote <=> l.amount < 0
        /\ l.notes # RefundNote => l.notes = None

\* links of a positive, a zero and a negative amount on one payment, the
\* negative one alone noted as a refund
C23_Witness ==
    \E a, b, c \in Range(data.reconciliation_links) :
        /\ a.payment_id = b.payment_id /\ b.payment_id = c.payment_id
        /\ a.amount > 0 /\ a.notes = None
        /\ b.amount = 0 /\ b.notes = None
        /\ c.amount < 0 /\ c.notes = RefundNote

Open(p) == p.status \in {"PENDING", "PARTIALLY_PAID"}

Remaining(p) == to_decimal(p.expected_amount) - to_decimal(p.received_amount)

OpenMatchesAnyAmount ==
    \A p \in Range(data.payments) :
        ( /\ Open(p)
          /\ p.status = calculate_payment_status(to_decimal(p.expected_amount),
                                                 to_decimal(p.received_amount)) )
        => /\ Remaining(p) >= 0
           /\ \A a \in 0..MaxTxnAmount : amount_matches_remaining(a, p)

\* the places of the open payments of the payload's currency and payer
OpenPayerMatches(d, payload) ==
    {i \in 1..Len(d.payments) :
        /\ d.payments[i].currency = payload.currency
        /\ Open(d.payments[i])
        /\ payer_matches(payload.payer_name, d.payments[i].payer_name)}

RuleTwoAnyAmount ==
    \A payload \in RemainingTransactions :
        ( /\ last'.handler = "transaction"
          /\ ~has_transaction(data, payload.transaction_id)
          /\ ~Truthy(payload.reference)
          /\ OpenPayerMatches(data, payload) # {}
          /\ handle_transaction_webhook(payload) )
        => LET p == data.payments[Min(OpenPayerMatches(data, payload))]
           IN /\ data'.reconciliation_links
                     = Append(data.reconciliation_links,
                              [payment_id     |-> p.payment_id,
                               transaction_id |-> payload.transaction_id,
                               match_type     |-> "AMOUNT_ONLY",
                               amount         |-> payload.amount,
                               notes          |-> IF payload.amount < 0
                                                  THEN RefundNote ELSE None])
              /\ to_decimal(get_payment(data', p.payment_id).received_amount)
                     = to_decimal(p.received_amount) + payload.amount

C25_MatchedToPayment ==
    \A t \in Range(data.transactions) :
        /\ t.matched_to_payment_id = None <=> ~t.matched
        /\ t.matched =>
               /\ LinksOfTransaction(data, t.transaction_id) # {}
               /\ \A i \in LinksOfTransaction(data, t.transaction_id) :
                      data.reconciliation_links[i].payment_id
                          = t.matched_to_payment_id
               /\ has_payment(data, t.matched_to_payment_id)

\* transactions matched to two payments, one under the id the storage
\* generated for it, beside a transaction that is unmatched
C25_Witness ==
    \E t, u, v \in Range(data.transactions) :
        /\ t.matched /\ u.matched /\ ~v.matched
        /\ t.matched_to_payment_id # u.matched_to_payment_id
        /\ Head(t.matched_to_payment_id) = "pay_"
        /\ v.matched_to_payment_id = None

\* s without the blanks before its first and after its last other character
Trimmed(s) ==
    LET inked == {i \in 1..Len(s) : s[i] # " "}
    IN IF inked = {}
       THEN <<>>
       ELSE SubSeq(s, Min(inked), CHOOSE i \in inked : \A j \in inked : j <= i)

\* lower case, trimmed, then without hyphens
Normalized(s) == SelectSeq(Trimmed(lower(s)), LAMBDA c : c # "-")

Present(ref) == ref # None /\ Len(ref) > 0

\* both webhooks of the pair have been delivered
PairDelivered == Len(hist) = 2

PairReference(kind) ==
    LET i == CHOOSE i \in 1..2 : hist[i].kind = kind
    IN hist[i].payload.reference

\* C26: match_reference is EXACT iff both references are present and equal
\* once trimmed, FUZZY_REF iff it is not EXACT and both are present and equal
\* once normalized, and none otherwise; it gives the same with its arguments
\* swapped, and the pair's links are the same whichever webhook came first
C26_MatchReference ==
    PairDelivered =>
        LET t == PairReference("transaction")
            p == PairReference("payment")
            m == match_reference(t, p)
            present == Present(t) /\ Present(p)
            other == Run(EmptyData, <<hist[2], hist[1]>>)
        IN /\ m \in {"EXACT", "FUZZY_REF", NoMatch}
           /\ m = "EXACT" <=> (present /\ Trimmed(t) = Trimmed(p))
           /\ m = "FUZZY_REF"
                  <=> (m # "EXACT" /\ present /\ Normalized(t) = Normalized(p))
           /\ match_reference(p, t) = m
           /\ other.reconciliation_links = data.reconciliation_links
           /\ m # NoMatch =>
                  /\ Len(data.reconciliation_links) = 1
                  /\ data.reconciliation_links[1].match_type = m

\* the transaction came first with " A", the payment after it with "a-", and
\* they are linked FUZZY_REF
C26_Witness ==
    /\ PairDelivered
    /\ hist[1].kind = "transaction"
    /\ hist[1].payload.reference = <<" ", "A">>
    /\ hist[2].payload.reference = <<"a", "-">>
    /\ Len(data.reconciliation_links) = 1
    /\ data.reconciliation_links[1].match_type = "FUZZY_REF"

=============================================================================
